---- MODULE Spec2Model ----
(***************************************************************************)
(* A model of dgraph-loader (src/src/main.rs): the document-to-upsert      *)
(* compiler (process_doc, is_node, count_nquads), the chunk aggregator and *)
(* transaction executor (process_chunk) and the stream pipeline of main.   *)
(***************************************************************************)
EXTENDS Naturals, Sequences, FiniteSets, TLC

(***************************************************************************)
(* JSON values (serde_json::Value).  An object is the sequence of its      *)
(* entries [k, v] in the map's iteration order; serde_json's default Map   *)
(* is a BTreeMap, so entries are kept sorted by key.                       *)
(***************************************************************************)

\* The field names of the model, in the map's (lexicographic) key order.
KeyOrder == <<"age", "dept", "email", "name", "type", "uid">>

KeyRank(k) == CHOOSE i \in 1..Len(KeyOrder) : KeyOrder[i] = k

\* A string's text: a literal of the input, or the result of one of the
\* format! calls of process_doc over a variable name.
Lit(s) == [k |-> "lit", lit |-> s, var |-> <<>>]

JNull == [t |-> "null"]
JStr(text) == [t |-> "str", s |-> text]
JNum(n) == [t |-> "num", n |-> n]
JObj(fields) == [t |-> "obj", f |-> fields]
JArr(items) == [t |-> "arr", a |-> items]

HasKey(fields, key) == \E i \in 1..Len(fields) : fields[i].k = key

\* value[key] of serde_json: Null for a missing key or a non-object.
JIndex(value, key) ==
  IF value.t = "obj" /\ HasKey(value.f, key)
  THEN (value.f[CHOOSE i \in 1..Len(value.f) : value.f[i].k = key]).v
  ELSE JNull

\* Map::insert: replaces the entry of an existing key, else inserts the new
\* entry at its place in key order.
MapInsert(fields, key, value) ==
  IF HasKey(fields, key)
  THEN [i \in 1..Len(fields) |->
          IF fields[i].k = key THEN [k |-> key, v |-> value] ELSE fields[i]]
  ELSE SelectSeq(fields, LAMBDA e : KeyRank(e.k) < KeyRank(key))
       \o <<[k |-> key, v |-> value]>>
       \o SelectSeq(fields, LAMBDA e : KeyRank(e.k) > KeyRank(key))

\* Map::remove.
MapRemove(fields, key) == SelectSeq(fields, LAMBDA e : e.k # key)

GEOJSON_TYPES == {"Point", "LineString", "Polygon", "MultiPoint",
                  "MultiLineString", "MultiPolygon", "GeometryCollection",
                  "Feature", "FeatureCollection"}

\* value["type"].as_str().map(|s| GEOJSON_TYPES.contains(&s)).unwrap_or(false)
is_geojson(value) ==
  LET ty == JIndex(value, "type")
  IN  ty.t = "str" /\ ty.s.k = "lit" /\ ty.s.lit \in GEOJSON_TYPES

is_node(value) == value.t = "obj" /\ ~is_geojson(value)

RECURSIVE SumSeq(_)
SumSeq(s) == IF s = <<>> THEN 0 ELSE Head(s) + SumSeq(Tail(s))

RECURSIVE count_nquads(_)
count_nquads(value) ==
  IF is_node(value)
  THEN LET kept == SelectSeq(value.f, LAMBDA e : e.k # "uid")
       IN  SumSeq([i \in 1..Len(kept) |-> count_nquads(kept[i].v)])
  ELSE 1

(***************************************************************************)
(* process_doc.  Variable names are the results of format!("v_{}_{}",      *)
(* index, offset) and format!("v_{}", index): the sequence of the numbers  *)
(* formatted, which determines the string and is determined by it.         *)
(***************************************************************************)

FormatKeyVar(index, offset) == <<index, offset>>

FormatDocVar(index) == <<index>>

\* format!("uid({})", var) and format!("_:{}", var)
FormatUidRef(var) == [k |-> "uid", lit |-> "", var |-> var]

FormatBlankRef(var) == [k |-> "blank", lit |-> "", var |-> var]

\* upsert_patterns.iter().any(|p| p.is_match(key)); a pattern is modelled by
\* the set of field names its regex matches.
is_upsert_key(upsert_patterns, key) ==
  \E i \in 1..Len(upsert_patterns) : key \in upsert_patterns[i]

\* The scan of lines 212-225 from entry i on; acc = [err, offset, vars].
RECURSIVE ScanKeys(_, _, _, _, _)
ScanKeys(upsert_patterns, index, fields, i, acc) ==
  IF i > Len(fields) THEN acc
  ELSE IF fields[i].k = "uid" THEN [acc EXCEPT !.err = "uid"]
  ELSE IF is_upsert_key(upsert_patterns, fields[i].k)
  THEN ScanKeys(upsert_patterns, index, fields, i + 1,
         [err |-> "none", offset |-> acc.offset + 1,
          vars |-> Append(acc.vars,
                     [var |-> FormatKeyVar(index, acc.offset + 1),
                      key |-> fields[i].k, value |-> fields[i].v])])
  ELSE ScanKeys(upsert_patterns, index, fields, i + 1, acc)

\* DocVarName, were the first key's variable used with several vars too.
DocVarNameFirstKey(index, vars) ==
  IF Len(vars) >= 1 THEN vars[1].var ELSE FormatDocVar(index)

\* Lines 228-232: the variable name of the node itself.
DocVarName(index, vars) ==
  IF Len(vars) = 1 THEN vars[1].var ELSE FormatDocVar(index)

\* Lines 236-249: the conditional mutation of one upsert key.
KeyMutation(v) ==
  [cond |-> <<v.var>>,
   set_json |-> JArr(<<JObj(MapInsert(<<[k |-> "uid", v |-> JStr(FormatUidRef(v.var))]>>,
                                      v.key, v.value))>>)]

KeyMutations(vars) == [i \in 1..Len(vars) |-> KeyMutation(vars[i])]

\* RemoveKeys, were the keys left in the object.
KeepKeys(fields, vars) == fields

\* Line 252, over all vars: obj.remove(key).
RECURSIVE RemoveKeys(_, _)
RemoveKeys(fields, vars) ==
  IF vars = <<>> THEN fields
  ELSE RemoveKeys(MapRemove(fields, Head(vars).key), Tail(vars))

\* Lines 256-258: one lookup line per var.
KeyQueries(vars) ==
  [i \in 1..Len(vars) |->
     [kind |-> "eq", var |-> vars[i].var, key |-> vars[i].key,
      value |-> vars[i].value, args |-> <<>>]]

\* Lines 261-264: the union line, if more than one var.
UnionQuery(var_name, vars) ==
  IF Len(vars) > 1
  THEN <<[kind |-> "uid", var |-> var_name, key |-> "", value |-> JNull,
          args |-> [i \in 1..Len(vars) |-> vars[i].var]]>>
  ELSE <<>>

\* ThisRef, were the looked-up reference used only with several vars.
ThisRefSeveralVars(var_name, vars) ==
  IF Len(vars) > 1 THEN FormatUidRef(var_name) ELSE FormatBlankRef(var_name)

\* ThisRef, were the blank node used whether or not vars were set.
ThisRefAlwaysBlank(var_name, vars) == FormatBlankRef(var_name)

\* Lines 298-302.
ThisRef(var_name, vars) ==
  IF Len(vars) > 0 THEN FormatUidRef(var_name) ELSE FormatBlankRef(var_name)

\* items.iter().all(|i| is_node(&i))
AllNodes(items) == \A i \in 1..Len(items) : is_node(items[i])

\* HasResidual, were an object holding its uid alone added too.
HasResidualAlways(fields) == Len(fields) > 0

\* Line 308: whether a set-doc is added for the object.
HasResidual(fields) == Len(fields) > 1

\* Lines 304-317: the uid is set on the object (already inserted in obj)
\* and, if other fields are left, the object goes to set_docs and a plain
\* reference stays in its place.
EmitSetDoc(st, obj, this_ref) ==
  IF HasResidual(obj)
  THEN [err |-> "none",
        st |-> [st EXCEPT !.set_docs = Append(@, JObj(obj))],
        doc |-> JObj(<<[k |-> "uid", v |-> JStr(this_ref)]>>)]
  ELSE [err |-> "none", st |-> st, doc |-> JObj(obj)]

\* Lines 278, 290 (the ? of the recursion) and 297-317; rec is the result of
\* the recursion over the fields.
AfterRecurse(rec, this_ref) ==
  IF rec.err # "none"
  THEN [err |-> rec.err, st |-> rec.st, doc |-> JObj(rec.fields)]
  ELSE EmitSetDoc(rec.st, MapInsert(rec.fields, "uid", JStr(this_ref)), this_ref)

\* Lines 234-264: the &mut arguments after the mutations and query lines of
\* the vars are added.
AddVars(st, offset, vars, var_name) ==
  [offset |-> offset,
   query |-> st.query \o KeyQueries(vars) \o UnionQuery(var_name, vars),
   set_docs |-> st.set_docs,
   mutations |-> st.mutations \o KeyMutations(vars)]

RECURSIVE process_doc(_, _, _, _)
RECURSIVE RecurseFields(_, _, _, _, _)
RECURSIVE RecurseItems(_, _, _, _, _)

\* Lines 282-290: r is what process_doc returned for item i.
ItemDone(upsert_patterns, index, items, i, r) ==
  IF r.err # "none" THEN [err |-> r.err, st |-> r.st, items |-> items]
  ELSE RecurseItems(upsert_patterns, index, r.st, [items EXCEPT ![i] = r.doc], i + 1)

\* Lines 281-291 from item i on; the result is [err, st, items].
RecurseItems(upsert_patterns, index, st, items, i) ==
  IF i > Len(items) THEN [err |-> "none", st |-> st, items |-> items]
  ELSE ItemDone(upsert_patterns, index, items, i,
                process_doc(upsert_patterns, index, st, items[i]))

\* Lines 270-278: r is what process_doc returned for the object of entry i.
FieldDone(upsert_patterns, index, fields, i, r) ==
  IF r.err # "none" THEN [err |-> r.err, st |-> r.st, fields |-> fields]
  ELSE RecurseFields(upsert_patterns, index, r.st, [fields EXCEPT ![i].v = r.doc], i + 1)

\* Lines 280-292: r is the result of the loop over the array of entry i.
ArrayDone(upsert_patterns, index, fields, i, r) ==
  IF r.err # "none" THEN [err |-> r.err, st |-> r.st, fields |-> fields]
  ELSE RecurseFields(upsert_patterns, index, r.st,
                     [fields EXCEPT ![i].v = JArr(r.items)], i + 1)

\* Lines 267-295 from entry i on; the result is [err, st, fields].
RecurseFields(upsert_patterns, index, st, fields, i) ==
  IF i > Len(fields) THEN [err |-> "none", st |-> st, fields |-> fields]
  ELSE IF fields[i].v.t = "obj" /\ is_node(fields[i].v)
  THEN FieldDone(upsert_patterns, index, fields, i,
                 process_doc(upsert_patterns, index, st, fields[i].v))
  ELSE IF fields[i].v.t = "arr" /\ AllNodes(fields[i].v.a)
  THEN ArrayDone(upsert_patterns, index, fields, i,
                 RecurseItems(upsert_patterns, index, st, fields[i].v.a, 1))
  ELSE RecurseFields(upsert_patterns, index, st, fields, i + 1)

\* Lines 227-317, the vars being known.
CompileNode(upsert_patterns, index, st, fields, offset, vars, var_name) ==
  AfterRecurse(RecurseFields(upsert_patterns, index,
                             AddVars(st, offset, vars, var_name),
                             RemoveKeys(fields, vars), 1),
               ThisRef(var_name, vars))

\* Lines 212-317; scan is the result of the scan for upsert keys.
AfterScan(upsert_patterns, index, st, doc, scan) ==
  IF scan.err # "none"
  THEN [err |-> scan.err, st |-> [st EXCEPT !.offset = scan.offset], doc |-> doc]
  ELSE CompileNode(upsert_patterns, index, st, doc.f, scan.offset, scan.vars,
                   DocVarName(index, scan.vars))

\* st = [offset, query, set_docs, mutations]: the &mut arguments.  The result
\* is [err, st, doc]: the error ("none" for Ok), the arguments and the
\* document as process_doc leaves them.
process_doc(upsert_patterns, index, st, doc) ==
  IF doc.t # "obj" THEN [err |-> "not_object", st |-> st, doc |-> doc]
  ELSE AfterScan(upsert_patterns, index, st, doc,
                 ScanKeys(upsert_patterns, index, doc.f, 1,
                          [err |-> "none", offset |-> st.offset, vars |-> <<>>]))

(***************************************************************************)
(* process_chunk, lines 106-143: the compilation of a chunk.  A line of    *)
(* the input is [ok, json]: whether serde_json::from_str accepts it, and   *)
(* the value it parses to.                                                 *)
(***************************************************************************)

from_str(line) == IF line.ok THEN [err |-> "none", doc |-> line.json]
                  ELSE [err |-> "json", doc |-> JNull]

\* The locals of process_chunk (acc: query, set_docs, mutations,
\* total_nquads, the documents as process_doc left them, and the lengths q0
\* and m0 of query and mutations when the current document began) after
\* process_doc returned r for a document of nquads leaves.
DocDone(acc, nquads, r) ==
  [err |-> r.err, query |-> r.st.query, set_docs |-> r.st.set_docs,
   mutations |-> r.st.mutations, total_nquads |-> acc.total_nquads + nquads,
   docs |-> Append(acc.docs, r.doc), q0 |-> acc.q0, m0 |-> acc.m0]

RECURSIVE CompileDocs(_, _, _, _)

\* Lines 115-129 for element i, parsed to doc.
CompileDoc(upsert_patterns, chunk, i, acc, after) ==
  IF after.err # "none" THEN after
  ELSE CompileDocs(upsert_patterns, chunk, i + 1, after)

\* Lines 115 (the ? of from_str) to 129.
ParsedDoc(upsert_patterns, chunk, i, acc, parsed) ==
  IF parsed.err # "none" THEN [acc EXCEPT !.err = parsed.err]
  ELSE CompileDoc(upsert_patterns, chunk, i, acc,
         DocDone(acc, count_nquads(parsed.doc),
                 process_doc(upsert_patterns, chunk[i].index,
                             [offset |-> 0, query |-> acc.query,
                              set_docs |-> acc.set_docs, mutations |-> acc.mutations],
                             parsed.doc)))

\* The loop of lines 114-130 from element i of the chunk on.
CompileDocs(upsert_patterns, chunk, i, acc) ==
  IF i > Len(chunk) THEN acc
  ELSE ParsedDoc(upsert_patterns, chunk, i,
                 [acc EXCEPT !.q0 = Len(acc.query), !.m0 = Len(acc.mutations)],
                 from_str(chunk[i].line))

\* FinalMutations, were the mutation for the set-docs put first.
FinalMutationsFirst(set_docs, mutations) ==
  IF Len(set_docs) > 0
  THEN <<[cond |-> <<>>, set_json |-> JArr(set_docs)]>> \o mutations
  ELSE mutations

\* Lines 136-143: the final mutation for the set-docs.
FinalMutations(set_docs, mutations) ==
  IF Len(set_docs) > 0
  THEN Append(mutations, [cond |-> <<>>, set_json |-> JArr(set_docs)])
  ELSE mutations

\* Lines 111 and 132-145, c being the locals after the loop.
Compiled(chunk, c) ==
  [err |-> c.err, query |-> c.query, set_docs |-> c.set_docs,
   mutations |-> IF c.err = "none" THEN FinalMutations(c.set_docs, c.mutations)
                 ELSE c.mutations,
   total_docs |-> Len(chunk), total_nquads |-> c.total_nquads,
   docs |-> c.docs, q0 |-> c.q0, m0 |-> c.m0]

\* Lines 106-145: everything process_chunk does before its first commit
\* attempt.
Compile(upsert_patterns, chunk) ==
  Compiled(chunk,
           CompileDocs(upsert_patterns, chunk, 1,
                       [err |-> "none", query |-> <<>>, set_docs |-> <<>>,
                        mutations |-> <<>>, total_nquads |-> 0, docs |-> <<>>,
                        q0 |-> 0, m0 |-> 0]))

(***************************************************************************)
(* The database as process_chunk uses it through upsert_and_commit_now:    *)
(* the meaning of the query lines and mutations that process_doc writes.   *)
(* A database is [next, triples]: the next unused entity id and the set of *)
(* triples [s, p, o], o being a value or an entity Ent(e).                 *)
(***************************************************************************)

Ent(e) == [t |-> "ent", e |-> e]

EmptyDb == [next |-> 1, triples |-> {}]

\* "first: 1": the match with the least uid, if any.
First(S) == IF S = {} THEN {} ELSE {CHOOSE x \in S : \A y \in S : x <= y}

EnvGet(env, var) == IF var \in DOMAIN env THEN env[var] ELSE {}

\* The entities one query line finds.
EvalLine(triples, env, l) ==
  IF l.kind = "eq"
  THEN First({t.s : t \in {u \in triples : u.p = l.key /\ u.o = l.value}})
  ELSE First(UNION {EnvGet(env, l.args[j]) : j \in 1..Len(l.args)})

Bind(env, var, val) ==
  [v \in DOMAIN env \cup {var} |-> IF v = var THEN val ELSE env[v]]

\* The query block from line i on: the entities each declared variable holds.
\*   var as var(func: eq(<key>, value), first: 1)       (line 257)
\*   var as var(func: uid(args), first: 1)               (line 263)
RECURSIVE EvalQuery(_, _, _, _)
EvalQuery(triples, query, i, env) ==
  IF i > Len(query) THEN env
  ELSE
    EvalQuery(triples, query, i + 1, Bind(env, query[i].var, EvalLine(triples, env, query[i])))

\* A block that declares a variable twice is rejected by the database.
QueryAccepted(query) ==
  \A i, j \in 1..Len(query) : query[i].var = query[j].var => i = j

\* A transaction in progress: entity ids start at 1.  (The loops below test
\* it at each step, so that the steps are evaluated in order.)
IsTxn(a) == a.next >= 1

\* The entity a reference names in a transaction a = [next, triples, blank]:
\* uid(var) names the entity var holds; uid(var) of an empty var and _:name
\* name a new entity, the same one throughout the transaction.
Resolve(a, env, ref) ==
  IF ref.k = "uid" /\ EnvGet(env, ref.var) # {}
  THEN [a |-> a, e |-> CHOOSE e \in EnvGet(env, ref.var) : TRUE]
  ELSE IF ref \in DOMAIN a.blank
  THEN [a |-> a, e |-> a.blank[ref]]
  ELSE [a |-> [next |-> a.next + 1, triples |-> a.triples,
               blank |-> Bind(a.blank, ref, a.next)],
        e |-> a.next]

\* An object that carries a uid: a reference to a node (lines 305, 312-314).
IsStub(value) == value.t = "obj" /\ HasKey(value.f, "uid")

\* An array of references (lines 280-291); an empty array sets nothing.
AllStubs(value) ==
  value.t = "arr" /\ \A i \in 1..Len(value.a) : IsStub(value.a[i])

StubRef(value) == JIndex(value, "uid").s

\* r is the transaction and entity that Resolve gave.
AddEdge(r, s, p) ==
  [r.a EXCEPT !.triples = @ \cup {[s |-> s, p |-> p, o |-> Ent(r.e)]}]

SetEdge(a, env, s, p, stub) == AddEdge(Resolve(a, env, StubRef(stub)), s, p)

RECURSIVE SetEdges(_, _, _, _, _, _)
SetEdges(a, env, s, p, items, i) ==
  IF i > Len(items) \/ ~IsTxn(a) THEN a
  ELSE SetEdges(SetEdge(a, env, s, p, items[i]), env, s, p, items, i + 1)

\* A value replaces the value the entity had for the predicate.
SetValue(a, s, p, value) ==
  [a EXCEPT !.triples =
     {t \in @ : ~(t.s = s /\ t.p = p /\ t.o.t # "ent")}
     \cup {[s |-> s, p |-> p, o |-> value]}]

\* One field of an object written on entity s.
SetField(a, env, s, e) ==
  IF e.k = "uid" THEN a
  ELSE IF IsStub(e.v) THEN SetEdge(a, env, s, e.k, e.v)
  ELSE IF AllStubs(e.v) THEN SetEdges(a, env, s, e.k, e.v.a, 1)
  ELSE SetValue(a, s, e.k, e.v)

RECURSIVE SetFields(_, _, _, _, _)
SetFields(a, env, s, fields, i) ==
  IF i > Len(fields) \/ ~IsTxn(a) THEN a
  ELSE SetFields(SetField(a, env, s, fields[i]), env, s, fields, i + 1)

SetResolved(r, env, obj) == SetFields(r.a, env, r.e, obj.f, 1)

\* One object of a set_json payload.
SetObject(a, env, obj) == SetResolved(Resolve(a, env, StubRef(obj)), env, obj)

RECURSIVE SetObjects(_, _, _, _)
SetObjects(a, env, objs, i) ==
  IF i > Len(objs) \/ ~IsTxn(a) THEN a
  ELSE SetObjects(SetObject(a, env, objs[i]), env, objs, i + 1)

\* @if(eq(len(var), 0)) (line 247); a mutation without a condition applies.
CondHolds(env, m) == m.cond = <<>> \/ EnvGet(env, m.cond[1]) = {}

RECURSIVE ApplyMutations(_, _, _, _)
ApplyMutations(a, env, mutations, i) ==
  IF i > Len(mutations) \/ ~IsTxn(a) THEN a
  ELSE ApplyMutations(IF CondHolds(env, mutations[i])
                      THEN SetObjects(a, env, mutations[i].set_json.a, 1)
                      ELSE a,
                      env, mutations, i + 1)

\* upsert_and_commit_now(query, mutations) when it succeeds: the database it
\* leaves, the entities it created (blank) and what the variables held (env).
TxnResult(a, env) ==
  [db |-> [next |-> a.next, triples |-> a.triples], blank |-> a.blank, env |-> env]

ApplyWith(db, env, mutations) ==
  TxnResult(ApplyMutations([next |-> db.next, triples |-> db.triples, blank |-> <<>>],
                           env, mutations, 1),
            env)

ApplyTxn(db, query, mutations) ==
  ApplyWith(db, EvalQuery(db.triples, query, 1, <<>>), mutations)


(***************************************************************************)
(* The inputs of the model.                                                *)
(***************************************************************************)

\* The longest input of the pipeline, in lines.
MaxLines == 3
\* The largest --chunk-size and --concurrency tried.
MaxChunkSize == 2
MaxConcurrency == 2
\* The most transient failures of the database in one run.
MaxAborts == 2
\* The longest input of the runs over all document shapes, in lines.
MaxDocs == 2

S(s) == JStr(Lit(s))
F(k, v) == [k |-> k, v |-> v]
Line(json) == [ok |-> TRUE, json |-> json]

\* A line that is not JSON.
BadLine == [ok |-> FALSE, json |-> JNull]

Person == JObj(<<F("name", S("A"))>>)
PersonMail == JObj(<<F("email", S("B")), F("name", S("A"))>>)
Aged == JObj(<<F("age", JNum(1))>>)
AgedPerson == JObj(<<F("age", JNum(1)), F("email", S("B")), F("name", S("A"))>>)
Point == JObj(<<F("name", S("A")), F("type", S("Point"))>>)
WithUid == JObj(<<F("uid", S("x"))>>)

\* The documents of the runs over all document shapes: every shape the compiler and the
\* estimator tell apart, alone and nested.
Docs ==
  { Person, PersonMail, Aged, AgedPerson, JObj(<<>>), Point, JNum(1),
    JObj(<<F("name", S("A")), F("uid", S("x"))>>),
    JObj(<<F("dept", JObj(<<F("name", S("E"))>>)), F("name", S("A"))>>),
    JObj(<<F("dept", PersonMail), F("email", S("C")), F("name", S("D"))>>),
    JObj(<<F("age", JNum(1)), F("dept", Aged)>>),
    JObj(<<F("dept", JObj(<<F("dept", Person)>>)), F("name", S("A"))>>),
    JObj(<<F("dept", JArr(<<Aged, Person>>))>>),
    JObj(<<F("dept", JArr(<<PersonMail, PersonMail>>)), F("name", S("A"))>>),
    JObj(<<F("dept", JArr(<<Aged, JNum(1)>>))>>),
    JObj(<<F("dept", JArr(<<>>)), F("name", S("A"))>>),
    JObj(<<F("age", JNum(1)), F("dept", Point)>>),
    JObj(<<F("dept", WithUid), F("name", S("A"))>>) }

DocLines == {Line(d) : d \in Docs} \cup {BadLine}

\* The --upsert-pattern lists of those runs.
PatternChoices == { <<>>, <<{"name"}>>, <<{"name"}, {"email"}>> }

\* The lines that follow the first in those runs.
MoreLines ==
  { Line(Person), Line(PersonMail), Line(Aged), Line(AgedPerson), BadLine,
    Line(JObj(<<F("dept", JObj(<<F("name", S("E"))>>)), F("name", S("A"))>>)),
    Line(JObj(<<F("dept", JArr(<<Aged, Person>>))>>)),
    Line(JObj(<<F("dept", WithUid), F("name", S("A"))>>)) }

\* The lines and patterns of the pipeline runs.
PipelineLines ==
  { Line(Person), Line(Aged), BadLine,
    Line(JObj(<<F("dept", WithUid), F("name", S("A"))>>)) }

PipelinePatterns == { <<{"name"}>> }

\* The lines of the runs that are compared with the run in input order:
\* two documents with the same key and another age, and one without a key.
OrderLines ==
  { Line(JObj(<<F("age", JNum(1)), F("name", S("A"))>>)),
    Line(JObj(<<F("age", JNum(2)), F("name", S("A"))>>)),
    Line(Aged) }

SeqsUpTo(set, n) == UNION {[1..m -> set] : m \in 0..n}

(***************************************************************************)
(* main and process_chunk as a state machine.                              *)
(***************************************************************************)

VARIABLES
  upsert_patterns,  \* args.upsert_patterns
  chunk_size,       \* args.chunk_size
  concurrency,      \* args.concurrency
  input,            \* the lines of stdin
  next_line,        \* the number of lines read so far
  chunks,           \* the chunks handed to process_chunk, in order
  db,               \* the database behind client
  txns_counter, docs_counter, abort_counter,
  bar_pos,          \* the position of the progress bar
  run,              \* "running", or how main returned: "ok", "error"
  resubmit          \* the transactions committed a second time

vars == <<upsert_patterns, chunk_size, concurrency, input, next_line, chunks, db,
          txns_counter, docs_counter, abort_counter, bar_pos, run, resubmit>>

args == <<upsert_patterns, chunk_size, concurrency, input>>
counters == <<txns_counter, docs_counter, abort_counter, bar_pos>>

InitState ==
  /\ next_line = 0
  /\ chunks = <<>>
  /\ db = EmptyDb
  /\ txns_counter = 0 /\ docs_counter = 0 /\ abort_counter = 0 /\ bar_pos = 0
  /\ run = "running"
  /\ resubmit = <<>>

Init ==
  /\ upsert_patterns \in PipelinePatterns
  /\ chunk_size \in 1..MaxChunkSize
  /\ concurrency \in 1..MaxConcurrency
  /\ input \in SeqsUpTo(PipelineLines, MaxLines)
  /\ InitState

\* Short inputs, a line of any document shape first, one transaction at a
\* time.
InitDoc ==
  /\ upsert_patterns \in PatternChoices
  /\ chunk_size \in 1..MaxDocs
  /\ concurrency = 1
  /\ input \in {<<first>> \o rest : first \in DocLines,
                                   rest \in SeqsUpTo(MoreLines, MaxDocs - 1)}
  /\ InitState

\* A future of process_chunk that try_buffer_unordered holds.
InFlight(ch) == ch.status \in {"new", "committing", "sleeping", "committed"}

InFlightCount(chs) == Cardinality({c \in 1..Len(chs) : InFlight(chs[c])})

\* CanDispatch, were a future taken at the limit too.
CanDispatchAtLimit(chs, limit) == InFlightCount(chs) <= limit

\* Line 70: try_buffer_unordered takes another future only below its limit.
CanDispatch(chs, limit) == InFlightCount(chs) < limit

\* NextChunk, were the lines numbered from one.
NextChunkFromOne(lines, from, size) ==
  LET n == IF Len(lines) - from < size THEN Len(lines) - from ELSE size
  IN  [i \in 1..n |-> [index |-> from + i, line |-> lines[from + i]]]

\* Lines 64-67: enumerate and try_chunks: the next chunk of the input.
NextChunk(lines, from, size) ==
  LET n == IF Len(lines) - from < size THEN Len(lines) - from ELSE size
  IN  [i \in 1..n |-> [index |-> from + i - 1, line |-> lines[from + i]]]

\* Dispatch, were the stream polled after main returned too.
DispatchAfterReturn ==
  /\ next_line < Len(input)
  /\ CanDispatch(chunks, concurrency)
  /\ chunks' = Append(chunks, [lines |-> NextChunk(input, next_line, chunk_size),
                               status |-> "new", compiled |-> [err |-> "unpolled"],
                               aborted |-> 0, attempts |-> 0, commits |-> 0])
  /\ next_line' = next_line + Len(chunks'[Len(chunks')].lines)
  /\ UNCHANGED <<args, db, counters, run, resubmit>>

\* Lines 64-70: the next chunk is read and its future queued.
Dispatch ==
  /\ run = "running"
  /\ next_line < Len(input)
  /\ CanDispatch(chunks, concurrency)
  /\ chunks' = Append(chunks, [lines |-> NextChunk(input, next_line, chunk_size),
                               status |-> "new", compiled |-> [err |-> "unpolled"],
                               aborted |-> 0, attempts |-> 0, commits |-> 0])
  /\ next_line' = next_line + Len(chunks'[Len(chunks')].lines)
  /\ UNCHANGED <<args, db, counters, run, resubmit>>

\* Lines 88 and 178-180: an Err of chunk c ends try_for_each and main; the
\* futures still queued are dropped with the stream.
FailRun(chs, c) ==
  [i \in 1..Len(chs) |->
     IF i = c THEN [chs[i] EXCEPT !.status = "failed"]
     ELSE IF InFlight(chs[i]) THEN [chs[i] EXCEPT !.status = "dropped"]
     ELSE chs[i]]

\* Started, were the error of the loop not returned.
StartedAnyway(chs, c, compiled) ==
  [chs EXCEPT ![c].compiled = compiled, ![c].status = "committing", ![c].attempts = 1]

\* Lines 115, 129 (the ? of from_str and process_doc) and 145-151: the chunks
\* once chunk c is compiled.
Started(chs, c, compiled) ==
  IF compiled.err # "none"
  THEN FailRun([chs EXCEPT ![c].compiled = compiled], c)
  ELSE [chs EXCEPT ![c].compiled = compiled, ![c].status = "committing",
                   ![c].attempts = 1]

\* Lines 106-151: the first poll of the future compiles the chunk and, unless
\* a document is rejected, makes the first commit attempt.
Start(c) ==
  /\ run = "running"
  /\ chunks[c].status = "new"
  /\ chunks' = Started(chunks, c, Compile(upsert_patterns, chunks[c].lines))
  /\ run' = IF chunks'[c].status = "failed" THEN "error" ELSE run
  /\ UNCHANGED <<args, next_line, db, counters, resubmit>>

\* Lines 149-151: the database commits the transaction.
CommitOk(c) ==
  /\ run = "running"
  /\ chunks[c].status = "committing"
  /\ QueryAccepted(chunks[c].compiled.query)
  /\ db' = ApplyTxn(db, chunks[c].compiled.query, chunks[c].compiled.mutations).db
  /\ chunks' = [chunks EXCEPT ![c].status = "committed", ![c].commits = @ + 1]
  /\ UNCHANGED <<args, next_line, counters, run, resubmit>>

\* Complete, were the document total stored and not added.
CompleteLosingUpdate(c) ==
  /\ run = "running"
  /\ chunks[c].status = "committed"
  /\ chunks' = [chunks EXCEPT ![c].status = "done"]
  /\ txns_counter' = txns_counter + 1
  /\ docs_counter' = chunks[c].compiled.total_docs
  /\ abort_counter' = abort_counter + chunks[c].aborted
  /\ bar_pos' = bar_pos + chunks[c].compiled.total_nquads
  /\ UNCHANGED <<args, next_line, db, run, resubmit>>

\* Lines 182-191 and 71-87: the Ok arrives, process_chunk returns its stats
\* and try_for_each folds them into the counters.
Complete(c) ==
  /\ run = "running"
  /\ chunks[c].status = "committed"
  /\ chunks' = [chunks EXCEPT ![c].status = "done"]
  /\ txns_counter' = txns_counter + 1
  /\ docs_counter' = docs_counter + chunks[c].compiled.total_docs
  /\ abort_counter' = abort_counter + chunks[c].aborted
  /\ bar_pos' = bar_pos + chunks[c].compiled.total_nquads
  /\ UNCHANGED <<args, next_line, db, run, resubmit>>

\* The transient errors of the run so far, over all chunks.
Aborts(chs) == SumSeq([c \in 1..Len(chs) |-> chs[c].aborted])

\* CommitTransient, were the failure not counted.
CommitTransientUncounted(c) ==
  /\ run = "running"
  /\ chunks[c].status = "committing"
  /\ Aborts(chunks) < MaxAborts
  /\ chunks' = [chunks EXCEPT ![c].status = "sleeping"]
  /\ UNCHANGED <<args, next_line, db, counters, run, resubmit>>

\* Lines 164-169: Aborted or ResourceExhausted: count it and sleep.  The
\* database answers so at most MaxAborts times in a run.
CommitTransient(c) ==
  /\ run = "running"
  /\ chunks[c].status = "committing"
  /\ Aborts(chunks) < MaxAborts
  /\ chunks' = [chunks EXCEPT ![c].status = "sleeping", ![c].aborted = @ + 1]
  /\ UNCHANGED <<args, next_line, db, counters, run, resubmit>>

\* Retry, were the chunk given up after its sleep.
RetryGivesUp(c) ==
  /\ run = "running"
  /\ chunks[c].status = "sleeping"
  /\ chunks' = FailRun(chunks, c)
  /\ run' = "error"
  /\ UNCHANGED <<args, next_line, db, counters, resubmit>>

\* Lines 168-169 and 148-151: the sleep ends and the loop commits again.
Retry(c) ==
  /\ run = "running"
  /\ chunks[c].status = "sleeping"
  /\ chunks' = [chunks EXCEPT ![c].status = "committing", ![c].attempts = @ + 1]
  /\ UNCHANGED <<args, next_line, db, counters, run, resubmit>>

\* Lines 155 and 171-180: any other error is returned.
CommitFatal(c) ==
  /\ run = "running"
  /\ chunks[c].status = "committing"
  /\ chunks' = FailRun(chunks, c)
  /\ run' = "error"
  /\ UNCHANGED <<args, next_line, db, counters, resubmit>>

\* Finish, were the end of the input enough to end the stream.
FinishEarly ==
  /\ run = "running"
  /\ next_line = Len(input)
  /\ run' = "ok"
  /\ UNCHANGED <<args, next_line, chunks, db, counters, resubmit>>

\* Lines 88-92: the stream ends: no line is left and no future is queued.
Finish ==
  /\ run = "running"
  /\ next_line = Len(input)
  /\ InFlightCount(chunks) = 0
  /\ run' = "ok"
  /\ UNCHANGED <<args, next_line, chunks, db, counters, resubmit>>

\* The compiled transaction of a committed chunk is submitted once more, as
\* it is, against the database that holds its first commit.
Resubmit(c) ==
  /\ run = "ok"
  /\ chunks[c].status = "done"
  /\ resubmit = <<>>
  /\ resubmit' = <<[chunk |-> c,
                    txn |-> ApplyTxn(db, chunks[c].compiled.query,
                                     chunks[c].compiled.mutations)]>>
  /\ db' = resubmit'[1].txn.db
  /\ UNCHANGED <<args, next_line, chunks, counters, run>>

Next ==
  \/ Dispatch
  \/ \E c \in 1..Len(chunks) : Start(c)
  \/ \E c \in 1..Len(chunks) : CommitOk(c)
  \/ \E c \in 1..Len(chunks) : Complete(c)
  \/ \E c \in 1..Len(chunks) : CommitTransient(c)
  \/ \E c \in 1..Len(chunks) : Retry(c)
  \/ \E c \in 1..Len(chunks) : CommitFatal(c)
  \/ Finish

Spec == Init /\ [][Next]_vars

\* The pipeline over lines that all compile.
InitOrder ==
  /\ upsert_patterns \in PipelinePatterns
  /\ chunk_size \in 1..MaxChunkSize
  /\ concurrency \in 1..MaxConcurrency
  /\ input \in SeqsUpTo(OrderLines, MaxLines)
  /\ InitState

SpecOrder == InitOrder /\ [][Next]_vars

\* The pipeline over lines that all compile, with a database whose errors
\* are all transient.  The runtime polls every future that can go on and the
\* database answers every request: a step that stays possible is taken.
LiveLines == { Line(AgedPerson) }

InitLive ==
  /\ upsert_patterns \in PipelinePatterns
  /\ chunk_size \in 1..MaxChunkSize
  /\ concurrency \in 1..MaxConcurrency
  /\ input \in SeqsUpTo(LiveLines, MaxLines)
  /\ InitState

NextLive ==
  \/ Dispatch
  \/ \E c \in 1..Len(chunks) : Start(c)
  \/ \E c \in 1..Len(chunks) : CommitOk(c)
  \/ \E c \in 1..Len(chunks) : Complete(c)
  \/ \E c \in 1..Len(chunks) : CommitTransient(c)
  \/ \E c \in 1..Len(chunks) : Retry(c)
  \/ Finish

\* The steps of main's own futures, and the steps that compile a chunk or
\* have a commit succeed.  A transient failure is the database's to choose
\* and is under no fairness.
MainSteps ==
  \/ Dispatch
  \/ \E c \in 1..Len(chunks) : Complete(c)
  \/ \E c \in 1..Len(chunks) : Retry(c)
  \/ Finish

ChunkSteps ==
  \/ \E c \in 1..Len(chunks) : Start(c)
  \/ \E c \in 1..Len(chunks) : CommitOk(c)

\* ENABLED <<ChunkSteps>>_vars, from the guards of Start and CommitOk.
ChunkStepsEnabled ==
  /\ run = "running"
  /\ \E c \in 1..Len(chunks) :
       \/ chunks[c].status = "new"
       \/ chunks[c].status = "committing" /\ QueryAccepted(chunks[c].compiled.query)

\* Weak fairness of MainSteps and of ChunkSteps, the latter written out.
SpecLive ==
  /\ InitLive /\ [][NextLive]_vars
  /\ WF_vars(MainSteps)
  /\ ([]<>~ChunkStepsEnabled \/ []<><<ChunkSteps>>_vars)

NextDoc ==
  \/ Dispatch
  \/ \E c \in 1..Len(chunks) : Start(c)
  \/ \E c \in 1..Len(chunks) : CommitOk(c)
  \/ \E c \in 1..Len(chunks) : Complete(c)
  \/ \E c \in 1..Len(chunks) : CommitFatal(c)
  \/ Finish
  \/ \E c \in 1..Len(chunks) : Resubmit(c)

SpecDoc == InitDoc /\ [][NextDoc]_vars


(***************************************************************************)
(* What the claims speak of: the nodes and upsert keys of the input, and   *)
(* the parts of a compiled chunk.                                          *)
(***************************************************************************)

\* The fields of a node that match an upsert pattern, and the others.
KeysOf(patterns, node) ==
  SelectSeq(node.f, LAMBDA e : is_upsert_key(patterns, e.k))

RestOf(patterns, node) ==
  SelectSeq(node.f, LAMBDA e : ~is_upsert_key(patterns, e.k))

\* A value that holds nodes: a node-shaped object, or an array of them.
NodeLike(value) == is_node(value) \/ (value.t = "arr" /\ AllNodes(value.a))

RECURSIVE Flatten(_)
Flatten(seqs) == IF seqs = <<>> THEN <<>> ELSE Head(seqs) \o Flatten(Tail(seqs))

\* The node-shaped values of a document, each before the nodes nested in it
\* and in field order; a root counts as a node whatever its shape.
RECURSIVE NodesOf(_, _)
RECURSIVE NodesIn(_, _)
NodesIn(patterns, value) ==
  IF is_node(value) THEN NodesOf(patterns, value)
  ELSE IF value.t = "arr" /\ AllNodes(value.a)
  THEN Flatten([i \in 1..Len(value.a) |-> NodesOf(patterns, value.a[i])])
  ELSE <<>>

NodesWithin(patterns, rest) ==
  Flatten([i \in 1..Len(rest) |-> NodesIn(patterns, rest[i].v)])

NodesOf(patterns, node) ==
  <<node>> \o NodesWithin(patterns, RestOf(patterns, node))

\* The nodes of the chunk, each with the index of its document.
TagNodes(index, nodes) == [i \in 1..Len(nodes) |-> [index |-> index, node |-> nodes[i]]]

ChunkNodes(patterns, lines) ==
  Flatten([i \in 1..Len(lines) |->
             TagNodes(lines[i].index, NodesOf(patterns, lines[i].line.json))])

\* The upsert keys of the chunk, node by node.
ChunkKeys(patterns, nodes) ==
  Flatten([i \in 1..Len(nodes) |-> KeysOf(patterns, nodes[i].node)])

Count(seq, Test(_)) == Len(SelectSeq(seq, Test))

\* A chunk whose compilation succeeded.
Ok(ch) == ch.compiled.err = "none"

Lookups(ch) == SelectSeq(ch.compiled.query, LAMBDA l : l.kind = "eq")

Unions(ch) == SelectSeq(ch.compiled.query, LAMBDA l : l.kind = "uid")

Conditionals(ch) == SelectSeq(ch.compiled.mutations, LAMBDA m : m.cond # <<>>)

\* How many of the references to nodes that stand in a value pass Test.
StubsIn(value, Test(_)) ==
  IF IsStub(value) THEN (IF Test(StubRef(value)) THEN 1 ELSE 0)
  ELSE IF AllStubs(value)
  THEN Count(value.a, LAMBDA item : Test(StubRef(item)))
  ELSE 0

StubsInEntry(entry, Test(_)) ==
  SumSeq([i \in 1..Len(entry.f) |->
            IF entry.f[i].k = "uid" THEN 0 ELSE StubsIn(entry.f[i].v, Test)])

\* How many nodes of the chunk were given an identity reference that passes
\* Test: the roots carry it as their uid, the nested nodes in the place they
\* held in their parent.
StubCount(ch, Test(_)) ==
  Count(ch.compiled.docs, LAMBDA d : Test(StubRef(d)))
  + SumSeq([i \in 1..Len(ch.compiled.set_docs) |->
              StubsInEntry(ch.compiled.set_docs[i], Test)])

RefCount(ch, ref) == StubCount(ch, LAMBDA r : r = ref)

\* The indexes of the documents of a chunk.
Indexes(ch) == {ch.lines[i].index : i \in 1..Len(ch.lines)}

\* The nodes of document index with n upsert keys, n in the set ns.
NodesWithKeys(patterns, nodes, index, ns) ==
  Count(nodes, LAMBDA n : n.index = index /\ Len(KeysOf(patterns, n.node)) \in ns)

(***************************************************************************)
(* C1.  No query variable is declared twice in the query block of a chunk. *)
(* The union variable of a node is v_<index>, the same for every node of   *)
(* the document, so two nodes of one document with two keys each declare   *)
(* it twice.                                                               *)
(***************************************************************************)
C1_UniqueQueryVars ==
  \A c \in 1..Len(chunks) :
    Ok(chunks[c]) =>
      \A i, j \in 1..Len(chunks[c].compiled.query) :
        i # j => chunks[c].compiled.query[i].var # chunks[c].compiled.query[j].var


(***************************************************************************)
(* C2.  Round trip: the mutations of a document, applied to an empty       *)
(* database, give one entity per node of the input, with every field of    *)
(* the node on it.  Here: after the only transaction of a run of one chunk *)
(* there are as many entities as the chunk has nodes, as many values as    *)
(* the nodes have fields that are not nodes, and one edge per nested node. *)
(* It fails: the nodes without upsert keys of one document all get _:v_i,  *)
(* and a node with several keys has each key written on another entity.    *)
(***************************************************************************)
OneCommit ==
  /\ Len(chunks) = 1 /\ next_line = Len(input)
  /\ chunks[1].status \in {"committed", "done"}
  /\ resubmit = <<>>

\* The fields of a node that are written as values: the keys and the fields
\* that hold no nodes.
ValueFields(patterns, node) ==
  Count(node.f, LAMBDA e : is_upsert_key(patterns, e.k) \/ ~NodeLike(e.v))

RoundTrip(patterns, lines, nodes, triples, entities) ==
  /\ entities = Len(nodes)
  /\ Cardinality({t \in triples : t.o.t # "ent"})
       = SumSeq([i \in 1..Len(nodes) |-> ValueFields(patterns, nodes[i].node)])
  /\ Cardinality({t \in triples : t.o.t = "ent"}) = Len(nodes) - Len(lines)

C2_RoundTrip ==
  OneCommit =>
    RoundTrip(upsert_patterns, chunks[1].lines,
              ChunkNodes(upsert_patterns, chunks[1].lines), db.triples, db.next - 1)

(***************************************************************************)
(* C3.  Idempotence under retry: when the compiled transaction of a        *)
(* committed chunk is submitted again, every variable of its query block   *)
(* holds an entity, so every guard eq(len(var), 0) is false, and the only  *)
(* entities the second submission creates are the blank nodes _:v_i of     *)
(* documents that have a node without upsert keys: no node that carried a  *)
(* key gets a new entity.                                                  *)
(***************************************************************************)
Retried(ch, txn) ==
  /\ \A i \in 1..Len(ch.compiled.query) : EnvGet(txn.env, ch.compiled.query[i].var) # {}
  /\ \A i \in 1..Len(ch.compiled.mutations) :
       ch.compiled.mutations[i].cond # <<>> => ~CondHolds(txn.env, ch.compiled.mutations[i])
  /\ \A ref \in DOMAIN txn.blank :
       /\ ref.k = "blank"
       /\ \E index \in Indexes(ch) :
            /\ ref.var = FormatDocVar(index)
            /\ NodesWithKeys(upsert_patterns, ChunkNodes(upsert_patterns, ch.lines),
                             index, {0}) > 0

C3_RetryIdempotent ==
  resubmit # <<>> => Retried(chunks[resubmit[1].chunk], resubmit[1].txn)

\* A transaction with lookups, a residual set mutation and a node without
\* keys has been submitted a second time.
C3_Witness ==
  /\ resubmit # <<>>
  /\ Len(Lookups(chunks[resubmit[1].chunk])) >= 2
  /\ chunks[resubmit[1].chunk].compiled.set_docs # <<>>
  /\ DOMAIN resubmit[1].txn.blank # {}


(***************************************************************************)
(* C4.  Every field of a node that matches an upsert pattern gives exactly *)
(* one conditional mutation, guarded by the variable of the key's lookup   *)
(* line having matched nothing and setting only that key, and no entry of  *)
(* set_docs has a field that matches a pattern.                            *)
(***************************************************************************)
KeyWritten(key, lookup, m) ==
  /\ lookup.key = key.k /\ lookup.value = key.v
  /\ m.cond = <<lookup.var>>
  /\ m.set_json =
       JArr(<<JObj(MapInsert(<<[k |-> "uid", v |-> JStr(FormatUidRef(lookup.var))]>>,
                             key.k, key.v))>>)

KeysWritten(patterns, keys, lookups, conds, set_docs) ==
  /\ Len(lookups) = Len(keys)
  /\ Len(conds) = Len(keys)
  /\ \A i \in 1..Len(keys) : KeyWritten(keys[i], lookups[i], conds[i])
  /\ \A i \in 1..Len(set_docs) : \A j \in 1..Len(set_docs[i].f) :
       ~is_upsert_key(patterns, set_docs[i].f[j].k)

C4_KeysOnlyConditional ==
  \A c \in 1..Len(chunks) :
    Ok(chunks[c]) =>
      KeysWritten(upsert_patterns,
                  ChunkKeys(upsert_patterns, ChunkNodes(upsert_patterns, chunks[c].lines)),
                  Lookups(chunks[c]), Conditionals(chunks[c]), chunks[c].compiled.set_docs)

\* A committed chunk with several keys and with fields left for set_docs.
C4_Witness ==
  \E c \in 1..Len(chunks) :
    /\ chunks[c].status = "done"
    /\ Len(Conditionals(chunks[c])) >= 2
    /\ \E i \in 1..Len(chunks[c].compiled.set_docs) :
         \E j \in 1..Len(chunks[c].compiled.set_docs[i].f) :
           chunks[c].compiled.set_docs[i].f[j].k = "age"

(***************************************************************************)
(* C5.  A node with two or more upsert keys has one lookup line per key    *)
(* and exactly one union line over exactly the variables of those lookups; *)
(* the reference written for the node is the variable of the union         *)
(* line, never the variable of one of its keys.                            *)
(***************************************************************************)
KeysBefore(patterns, nodes, n) ==
  SumSeq([i \in 1..(n - 1) |-> Len(KeysOf(patterns, nodes[i].node))])

\* The variables of the lookup lines of the n-th node of the chunk.
NodeVars(patterns, nodes, lookups, n) ==
  [j \in 1..Len(KeysOf(patterns, nodes[n].node)) |->
     lookups[KeysBefore(patterns, nodes, n) + j].var]

UnionOver(ch, index, node_vars) ==
  /\ Count(Unions(ch), LAMBDA l : l.args = node_vars) = 1
  /\ \A i \in 1..Len(Unions(ch)) :
       Unions(ch)[i].args = node_vars => Unions(ch)[i].var = FormatDocVar(index)
  /\ \A j \in 1..Len(node_vars) : RefCount(ch, FormatUidRef(node_vars[j])) = 0

SeveralKeys(patterns, ch, nodes) ==
  /\ Len(Lookups(ch)) = Len(ChunkKeys(patterns, nodes))
  /\ Len(Unions(ch)) = Count(nodes, LAMBDA n : Len(KeysOf(patterns, n.node)) >= 2)
  /\ \A n \in 1..Len(nodes) :
       Len(KeysOf(patterns, nodes[n].node)) >= 2 =>
         UnionOver(ch, nodes[n].index, NodeVars(patterns, nodes, Lookups(ch), n))
  /\ \A index \in Indexes(ch) :
       RefCount(ch, FormatUidRef(FormatDocVar(index)))
         = Count(nodes, LAMBDA n : n.index = index /\ Len(KeysOf(patterns, n.node)) >= 2)

C5_UnionForSeveralKeys ==
  \A c \in 1..Len(chunks) :
    Ok(chunks[c]) =>
      SeveralKeys(upsert_patterns, chunks[c],
                  ChunkNodes(upsert_patterns, chunks[c].lines))

\* A compiled chunk with two nodes of two keys and a node of one.
C5_Witness ==
  \E c \in 1..Len(chunks) :
    /\ Ok(chunks[c])
    /\ Len(Unions(chunks[c])) >= 2
    /\ Len(Lookups(chunks[c])) >= 5

(***************************************************************************)
(* C6.  A node is given a blank-node reference exactly if none of its      *)
(* fields matches an upsert pattern: of every document, as many references *)
(* are the blank node _:v_i as it has nodes without keys, no other blank   *)
(* node is written, and every node has a reference.  For a chunk without   *)
(* any key the query block is empty and no mutation is conditional.        *)
(***************************************************************************)
FreshOnlyWithoutKeys(patterns, ch, nodes) ==
  /\ StubCount(ch, LAMBDA r : TRUE) = Len(nodes)
  /\ StubCount(ch, LAMBDA r : r.k = "blank")
       = Count(nodes, LAMBDA n : KeysOf(patterns, n.node) = <<>>)
  /\ \A index \in Indexes(ch) :
       RefCount(ch, FormatBlankRef(FormatDocVar(index)))
         = NodesWithKeys(patterns, nodes, index, {0})
  /\ ChunkKeys(patterns, nodes) = <<>> =>
       /\ ch.compiled.query = <<>>
       /\ Conditionals(ch) = <<>>
       /\ StubCount(ch, LAMBDA r : r.k = "blank") = Len(nodes)

C6_FreshIffNoKeys ==
  \A c \in 1..Len(chunks) :
    Ok(chunks[c]) =>
      FreshOnlyWithoutKeys(upsert_patterns, chunks[c],
                           ChunkNodes(upsert_patterns, chunks[c].lines))

\* A compiled document with two nodes without keys and a node with one.
C6_Witness ==
  \E c \in 1..Len(chunks) :
    /\ Ok(chunks[c])
    /\ Len(Lookups(chunks[c])) >= 1
    /\ \E index \in Indexes(chunks[c]) :
         RefCount(chunks[c], FormatBlankRef(FormatDocVar(index))) >= 2


(***************************************************************************)
(* C8.  count_nquads and process_doc split every document alike into nodes *)
(* and leaves: the estimate added for a chunk is the number of fields of   *)
(* the nodes process_doc compiles that are written as values.  It fails:   *)
(* count_nquads counts an array of nodes as 1 and does not descend into   *)
(* it, and counts a root with a geospatial type as 1.                      *)
(***************************************************************************)
CompiledLeaves(patterns, nodes) ==
  SumSeq([i \in 1..Len(nodes) |-> ValueFields(patterns, nodes[i].node)])

C8_EstimateMatchesCompiler ==
  \A c \in 1..Len(chunks) :
    Ok(chunks[c]) =>
      chunks[c].compiled.total_nquads
        = CompiledLeaves(upsert_patterns, ChunkNodes(upsert_patterns, chunks[c].lines))


(***************************************************************************)
(* C9.  Documents whose nodes have no fields other than upsert keys and    *)
(* nested nodes, such as {"name":"Alice","dept":{"name":"Eng"}} with name  *)
(* as the key.  As stated: one lookup line and one guarded conditional     *)
(* mutation per key, and nothing is added to set_docs.  The first part     *)
(* holds; set_docs does get an entry for every node that has a nested      *)
(* node, since its field holding the reference is left beside the uid.     *)
(* As amended: such an entry is added exactly for the nodes that have a    *)
(* field besides their keys, and it holds the uid and references only.     *)
(***************************************************************************)
OnlyKeysAndNodes(patterns, nodes) ==
  \A n \in 1..Len(nodes) :
    \A i \in 1..Len(RestOf(patterns, nodes[n].node)) :
      NodeLike(RestOf(patterns, nodes[n].node)[i].v)

OnePerKey(patterns, ch, nodes) ==
  /\ Len(Lookups(ch)) = Len(ChunkKeys(patterns, nodes))
  /\ Len(Conditionals(ch)) = Len(ChunkKeys(patterns, nodes))
  /\ \A i \in 1..Len(Conditionals(ch)) : Conditionals(ch)[i].cond = <<Lookups(ch)[i].var>>

OnlyRefs(entry) ==
  \A j \in 1..Len(entry.f) :
    entry.f[j].k = "uid" \/ IsStub(entry.f[j].v) \/ AllStubs(entry.f[j].v)

C9_NoResidualEntries ==
  \A c \in 1..Len(chunks) :
    (/\ Ok(chunks[c])
     /\ OnlyKeysAndNodes(upsert_patterns, ChunkNodes(upsert_patterns, chunks[c].lines)))
    => /\ OnePerKey(upsert_patterns, chunks[c],
                    ChunkNodes(upsert_patterns, chunks[c].lines))
       /\ chunks[c].compiled.set_docs = <<>>

ResidualOnlyRefs(patterns, ch, nodes) ==
  /\ OnePerKey(patterns, ch, nodes)
  /\ Len(ch.compiled.set_docs) = Count(nodes, LAMBDA n : RestOf(patterns, n.node) # <<>>)
  /\ \A i \in 1..Len(ch.compiled.set_docs) : OnlyRefs(ch.compiled.set_docs[i])

C9_ResidualOnlyRefs ==
  \A c \in 1..Len(chunks) :
    (/\ Ok(chunks[c])
     /\ OnlyKeysAndNodes(upsert_patterns, ChunkNodes(upsert_patterns, chunks[c].lines)))
    => ResidualOnlyRefs(upsert_patterns, chunks[c],
                        ChunkNodes(upsert_patterns, chunks[c].lines))

\* Such a chunk with two keys and a nested node has been committed.
C9_Witness ==
  \E c \in 1..Len(chunks) :
    /\ chunks[c].status = "done"
    /\ OnlyKeysAndNodes(upsert_patterns, ChunkNodes(upsert_patterns, chunks[c].lines))
    /\ Len(Lookups(chunks[c])) >= 2
    /\ chunks[c].compiled.set_docs # <<>>


(***************************************************************************)
(* C7.  A chunk with a document that is not valid JSON, whose root is not  *)
(* an object, or that has a field uid on a node.  As stated: the document  *)
(* is rejected before any query line or mutation is produced for it,       *)
(* process_chunk returns the error, no commit is attempted for the chunk   *)
(* and the run ends with an error.  A uid on a nested node is found only   *)
(* after the lines and conditional mutations of the nodes around it were   *)
(* written.  As amended: nothing is produced for the document if the line  *)
(* is not JSON, the root is not an object or the uid is on the root; in    *)
(* every case what was produced is never submitted, the chunk fails        *)
(* without a commit attempt and the run ends with an error.                *)
(***************************************************************************)
Rejected(ch) == ch.compiled.err \in {"json", "not_object", "uid"}

NothingProduced(ch) ==
  /\ Len(ch.compiled.query) = ch.compiled.q0
  /\ Len(ch.compiled.mutations) = ch.compiled.m0

EndsRun(ch) == ch.status = "failed" /\ ch.attempts = 0 /\ run = "error"

\* The document process_doc rejected: the last it was called on.
RejectedDoc(ch) == ch.lines[Len(ch.compiled.docs)].line.json

C10_InFlightBounded == InFlightCount(chunks) <= concurrency

\* As many chunks in flight as allowed, more than one, with input left.
C10_Witness ==
  /\ concurrency >= 2
  /\ InFlightCount(chunks) = concurrency
  /\ next_line < Len(input)


(***************************************************************************)
(* C11.  The lines of the input are numbered by position and cut into      *)
(* chunks in input order: every chunk but the last has chunk_size lines,   *)
(* the last has at least one and may be short, the lines of a chunk follow *)
(* those of the chunk before it and every line read is in exactly one      *)
(* chunk; a chunk that succeeded was committed by exactly one transaction, *)
(* its last attempt, and no chunk by more than one.                        *)
(***************************************************************************)
InOrder(c, ch) ==
  /\ Len(ch.lines) >= 1
  /\ Len(ch.lines) <= chunk_size
  /\ (c < Len(chunks) \/ next_line < Len(input)) => Len(ch.lines) = chunk_size
  /\ \A i \in 1..Len(ch.lines) :
       /\ ch.lines[i].index = (c - 1) * chunk_size + (i - 1)
       /\ ch.lines[i].line = input[ch.lines[i].index + 1]

CommittedOnce(ch) ==
  /\ ch.commits <= 1
  /\ ch.status \in {"committed", "done"} => ch.commits = 1 /\ ch.attempts = ch.aborted + 1
  /\ ch.status \in {"new", "committing", "sleeping", "failed"} => ch.commits = 0

C11_ChunksInOrderCommittedOnce ==
  /\ next_line = SumSeq([c \in 1..Len(chunks) |-> Len(chunks[c].lines)])
  /\ next_line <= Len(input)
  /\ \A c \in 1..Len(chunks) : InOrder(c, chunks[c]) /\ CommittedOnce(chunks[c])

\* A run has ended well with a full chunk and a short last one, one of them
\* committed at its second attempt.
C11_Witness ==
  /\ run = "ok"
  /\ Len(chunks) >= 2
  /\ Len(chunks[Len(chunks)].lines) < chunk_size
  /\ \E c \in 1..Len(chunks) : chunks[c].attempts >= 2


(***************************************************************************)
(* C12.  main returns Ok only when the input is exhausted, no chunk is in  *)
(* flight and every chunk formed from the input has completed: its         *)
(* transaction is committed and its stats are folded into the totals.      *)
(***************************************************************************)
C12_OkOnlyWhenAllDone ==
  run = "ok" =>
    /\ next_line = Len(input)
    /\ InFlightCount(chunks) = 0
    /\ \A c \in 1..Len(chunks) : chunks[c].status = "done" /\ chunks[c].commits = 1
    /\ SumSeq([c \in 1..Len(chunks) |-> Len(chunks[c].lines)]) = Len(input)
    /\ txns_counter = Len(chunks)

\* A run of several chunks, two at a time, has ended well.
C12_Witness ==
  /\ run = "ok"
  /\ concurrency >= 2
  /\ Len(chunks) >= 3


(***************************************************************************)
(* C13.  When a chunk fails while others are in flight, the others are not *)
(* cancelled: when main returns the error, each chunk handed to            *)
(* process_chunk has run to its completion or to its own failure.  It      *)
(* fails: the ? on try_for_each returns at the first Err and the futures   *)
(* still held by try_buffer_unordered are dropped where they stand.        *)
(***************************************************************************)
C13_InFlightRunToTheEnd ==
  run = "error" =>
    \A c \in 1..Len(chunks) : chunks[c].status \in {"done", "failed"}


(***************************************************************************)
(* C14.  Every commit attempt of a chunk that fails with Aborted or        *)
(* ResourceExhausted adds exactly one to the chunk's abort count, is       *)
(* followed by a wait and then by a new attempt with the same query and    *)
(* the same full mutation list; the abort count of a chunk that succeeded  *)
(* is the number of attempts that failed before the success.               *)
(***************************************************************************)
Attempted(ch) == ch.attempts >= 1

RetriedUnchanged(ch) ==
  /\ ch.compiled = Compile(upsert_patterns, ch.lines)
  /\ ch.status \in {"committing", "committed", "done"} => ch.attempts = ch.aborted + 1
  /\ ch.status = "sleeping" => ch.attempts = ch.aborted

C14_RetryCountedAndUnchanged ==
  \A c \in 1..Len(chunks) : Attempted(chunks[c]) => RetriedUnchanged(chunks[c])

\* A chunk with residual fields was committed at its third attempt.
C14_Witness ==
  \E c \in 1..Len(chunks) :
    /\ chunks[c].status = "done"
    /\ chunks[c].aborted = 2
    /\ chunks[c].attempts = 3
    /\ Len(chunks[c].compiled.mutations) >= 2


(***************************************************************************)
(* C15.  A commit attempt that fails with an error other than Aborted or   *)
(* ResourceExhausted is the chunk's last: the chunk returns the error and  *)
(* commits nothing.  From the first failure on no chunk is in flight, none *)
(* is dispatched, and the run has ended with an error, not with Ok.        *)
(***************************************************************************)
FailedAtCommit(ch) == ch.status = "failed" /\ ch.attempts >= 1

C15_FatalEndsRun ==
  /\ \A c \in 1..Len(chunks) :
       FailedAtCommit(chunks[c]) =>
         /\ chunks[c].attempts = chunks[c].aborted + 1
         /\ chunks[c].commits = 0
  /\ (\E c \in 1..Len(chunks) : chunks[c].status = "failed") <=> run = "error"
  /\ run = "error" =>
       /\ Cardinality({c \in 1..Len(chunks) : chunks[c].status = "failed"}) = 1
       /\ InFlightCount(chunks) = 0

\* A commit failed for good after a transient failure, with input unread.
C15_Witness ==
  /\ run = "error"
  /\ next_line < Len(input)
  /\ \E c \in 1..Len(chunks) : FailedAtCommit(chunks[c]) /\ chunks[c].aborted >= 1


(***************************************************************************)
(* C16.  No update of a counter is lost, in whatever order the chunks      *)
(* complete: at every moment each counter is the sum over the chunks       *)
(* completed so far, and when main returns Ok the documents counted are    *)
(* the lines of the input, the transactions the chunks, the leaves the sum *)
(* of count_nquads over the documents and the aborts the commit attempts   *)
(* that failed with a transient error.                                     *)
(***************************************************************************)
DoneSum(chs, Stat(_)) ==
  SumSeq([c \in 1..Len(chs) |-> IF chs[c].status = "done" THEN Stat(chs[c]) ELSE 0])

C16_TotalsExact ==
  /\ txns_counter = DoneSum(chunks, LAMBDA ch : 1)
  /\ docs_counter = DoneSum(chunks, LAMBDA ch : Len(ch.lines))
  /\ abort_counter = DoneSum(chunks, LAMBDA ch : ch.attempts - 1)
  /\ bar_pos = DoneSum(chunks, LAMBDA ch :
                 SumSeq([i \in 1..Len(ch.lines) |-> count_nquads(ch.lines[i].line.json)]))
  /\ run = "ok" =>
       /\ docs_counter = Len(input)
       /\ txns_counter = Len(chunks)
       /\ bar_pos = SumSeq([i \in 1..Len(input) |-> count_nquads(input[i].json)])
       /\ abort_counter = Aborts(chunks)

\* A run of two chunks at a time has ended well after two transient failures.
C16_Witness ==
  /\ run = "ok"
  /\ concurrency >= 2
  /\ Len(chunks) >= 2
  /\ abort_counter = 2
  /\ docs_counter = 3
  /\ bar_pos >= 2


(***************************************************************************)
(* C17.  For the same input, chunk size and patterns, a run that ends well *)
(* leaves the same totals of documents and leaves and the same database    *)
(* content with --concurrency N as with --concurrency 1, whatever the      *)
(* order in which the transactions of the concurrent run commit.  With     *)
(* --concurrency 1 the chunks commit in input order; the content of two    *)
(* databases is the same if one is the other with its entities renamed.    *)
(* It fails: two documents with the same key and different values of a     *)
(* field leave the value of whichever chunk committed last.                *)
(***************************************************************************)
\* The database after the transactions of the chunks from c on, committed
\* in input order on d.
RECURSIVE InOrderDb(_, _, _)
InOrderDb(chs, c, d) ==
  IF c > Len(chs) \/ d.next < 1 THEN d
  ELSE InOrderDb(chs, c + 1,
                 ApplyTxn(d, chs[c].compiled.query, chs[c].compiled.mutations).db)

Renamed(triples, f) ==
  {[s |-> f[t.s], p |-> t.p,
    o |-> IF t.o.t = "ent" THEN Ent(f[t.o.e]) ELSE t.o] : t \in triples}

SameContent(d1, d2) ==
  /\ d1.next = d2.next
  /\ \E f \in Permutations(1..(d1.next - 1)) : Renamed(d1.triples, f) = d2.triples

C17_SameAsInOrder ==
  run = "ok" =>
    /\ concurrency = 1 => db = InOrderDb(chunks, 1, EmptyDb)
    /\ SameContent(db, InOrderDb(chunks, 1, EmptyDb))
    /\ docs_counter = Len(input)
    /\ bar_pos = SumSeq([i \in 1..Len(input) |-> count_nquads(input[i].json)])


(***************************************************************************)
(* C18.  The conditional mutation of every upsert key of a node sets the   *)
(* key on the node's identity reference, the one written as the node's uid *)
(* and used by its entry in set_docs, also when the node has several keys  *)
(* and its identity is the union variable: every conditional mutation      *)
(* writes on a reference that is the identity of a node of the chunk.  It  *)
(* fails: the mutation of a key writes on uid(v_i_k), the key's own        *)
(* variable, which is the node's identity only if the key is its only one. *)
(***************************************************************************)
WritesOnNode(ch, m) == RefCount(ch, StubRef(m.set_json.a[1])) >= 1

C18_KeySetOnIdentity ==
  \A c \in 1..Len(chunks) :
    Ok(chunks[c]) =>
      \A i \in 1..Len(Conditionals(chunks[c])) :
        WritesOnNode(chunks[c], Conditionals(chunks[c])[i])


(***************************************************************************)
(* C19.  The mutation list submitted for a chunk holds the conditional     *)
(* mutations first, those of an earlier document before those of a later   *)
(* one, and then one mutation without a condition that holds every entry   *)
(* of set_docs of every document; there is at most one such mutation, it   *)
(* is the last, and it is there exactly if set_docs is not empty.          *)
(***************************************************************************)
DocIndex(m) == m.cond[1][1]

InDocOrder(conds) ==
  \A i, j \in 1..Len(conds) : i < j => DocIndex(conds[i]) <= DocIndex(conds[j])

ConditionalsThenSet(patterns, ch, nodes) ==
  /\ ch.compiled.mutations =
       Conditionals(ch) \o (IF ch.compiled.set_docs = <<>> THEN <<>>
                            ELSE <<[cond |-> <<>>, set_json |-> JArr(ch.compiled.set_docs)]>>)
  /\ InDocOrder(Conditionals(ch))
  /\ Count(ch.compiled.mutations, LAMBDA m : m.cond = <<>>) <= 1
  /\ Len(ch.compiled.set_docs) = Count(nodes, LAMBDA n : RestOf(patterns, n.node) # <<>>)

C19_ConditionalsThenSet ==
  \A c \in 1..Len(chunks) :
    Ok(chunks[c]) =>
      ConditionalsThenSet(upsert_patterns, chunks[c],
                          ChunkNodes(upsert_patterns, chunks[c].lines))

\* A chunk of two documents, each with a key and with other fields, has
\* been committed.
C19_Witness ==
  \E c \in 1..Len(chunks) :
    /\ chunks[c].status = "done"
    /\ Len(chunks[c].compiled.set_docs) >= 2
    /\ \E i, j \in 1..Len(Conditionals(chunks[c])) :
         DocIndex(Conditionals(chunks[c])[i]) < DocIndex(Conditionals(chunks[c])[j])


(***************************************************************************)
(* C20.  A chunk is never given up for transient failures: every sleep     *)
(* after a failed attempt is followed by a new attempt, and a transient    *)
(* failure never ends the run with an error.  So for an input whose lines  *)
(* all compile and a database that fails only transiently and only         *)
(* finitely often, main eventually returns Ok, and it returns Ok only      *)
(* when every chunk is done: a chunk whose commits go on failing keeps the *)
(* run from ending.                                                        *)
(***************************************************************************)
Sleeping(c) == c <= Len(chunks) /\ chunks[c].status = "sleeping"

AttemptsAgain(c) ==
  /\ c <= Len(chunks)
  /\ chunks[c].status = "committing"
  /\ chunks[c].attempts = chunks[c].aborted + 1

C20_TransientNeverFatal ==
  /\ [](run # "error")
  /\ [](run = "ok" => \A c \in 1..Len(chunks) : chunks[c].status = "done")
  /\ \A c \in 1..MaxLines : Sleeping(c) ~> AttemptsAgain(c)
  /\ <>(run = "ok")

\* A run has ended well although one chunk failed as often as the database
\* fails at all.
C20_Witness ==
  /\ run = "ok"
  /\ \E c \in 1..Len(chunks) : chunks[c].aborted = MaxAborts /\ chunks[c].status = "done"


====
